---- MODULE Spec2Model ----
(***************************************************************************)
(* GraphVisualizer (quark_plugin_graph_visualizer/graph_visualizer.py).    *)
(*                                                                         *)
(* The component is a dataclass with ten configuration fields and one      *)
(* attribute, g, that preprocess sets and postprocess reads.  A state of   *)
(* the model is the component's fields plus a record of the most recent    *)
(* call: its argument, what it returned or raised, the values its local    *)
(* variables were bound to, and the plotting-library calls it made, in     *)
(* order.                                                                  *)
(*                                                                         *)
(* Python lists are sequences, tuples (u, v) are <<u, v>>, and `x in l`    *)
(* on a list is In(x, l).  Node identifiers are the strings of NodeOrder.  *)
(* Floats are kept exact: a line width is held in tenths of a unit.        *)
(***************************************************************************)
EXTENDS Integers, Sequences, FiniteSets, TLC

\* ---------------------------------------------------------------- bounds
MaxSolLen == 3

\* ------------------------------------------------------------- constants
DefaultNodeSize == 300
DefaultFontSize == 12
DefaultEdgeWidth == 1
MarkerSize == 10

\* Values that stand for the absence of one: the attribute g before it is
\* set, Python's None, and a call that raised instead of returning.
NoGraph == [absent |-> "g"]
None == [none |-> TRUE]
NoReturn == [raised |-> TRUE]

\* ------------------------------------------------------------ Python bits
\* x in l, for a list l
In(x, l) == \E i \in DOMAIN l : l[i] = x

Elems(l) == {l[i] : i \in DOMAIN l}

NoDup(l) == \A i, j \in DOMAIN l : l[i] = l[j] => i = j

\* ------------------------------------------------------------ the inputs
\* The node identifiers, in the order a graph reports them.
NodeOrder == <<"A", "B", "C">>

NodeIds == Elems(NodeOrder)

\* The pairs of distinct nodes among the first n, in the order networkx's
\* edges() reports them: node by node, each edge once, as a tuple that
\* starts at the endpoint that comes first in the node order.
AllPairs(n) ==
    LET cell(k) == <<((k - 1) \div n) + 1, ((k - 1) % n) + 1>>
        cells == SelectSeq([k \in 1..(n * n) |-> cell(k)],
                           LAMBDA c : c[1] < c[2])
    IN  [k \in DOMAIN cells |-> <<NodeOrder[cells[k][1]],
                                  NodeOrder[cells[k][2]]>>]

\* The networkx graphs without self-loops on the first n nodes, n from 0
\* up: nodes() in node order, edges() as tuples.
NxGraphs ==
    UNION { { [nodes |-> SubSeq(NodeOrder, 1, n),
               edges |-> SelectSeq(AllPairs(n), LAMBDA e : e \in E)]
              : E \in SUBSET Elems(AllPairs(n)) }
            : n \in 0..Len(NodeOrder) }

\* The four-node cycle A-B-C-D-A, as networkx holds it when the nodes were
\* added in that order.
CycleGraph ==
    [nodes |-> <<"A", "B", "C", "D">>,
     edges |-> << <<"A", "B">>, <<"A", "D">>, <<"B", "C">>, <<"C", "D">> >>]

\* The pipeline's Graph value wraps a networkx graph: every graph on up to
\* three nodes, and the four-node cycle.
GraphInputs == {[nx |-> G] : G \in NxGraphs \cup {CycleGraph}}

as_nx_graph(d) == d.nx

SeqsUpTo(S, n) == UNION {[1..k -> S] : k \in 0..n}

\* The tour of the four-node cycle.
CyclePath == <<"A", "B", "C", "D">>

\* The pipeline's Other[list] value: .data is a list of node identifiers,
\* some of which the stored graph may not have: every list up to MaxSolLen
\* over the three identifiers, and the tour of the four-node cycle.
SolutionInputs ==
    {[data |-> s] : s \in SeqsUpTo(NodeIds, MaxSolLen) \cup {CyclePath}}

SolutionTypes == {"path", "set", "tree"}
SavePaths == {"", "out.png"}

Data(d) == [tag |-> "Data", data |-> d]

\* Variant: a graph already stored is kept.
StoreGraphOnce(old, d) == IF old = NoGraph THEN as_nx_graph(d) ELSE old

\* self.g = data.as_nx_graph(): what the attribute holds afterwards, given
\* what it held before.
StoreGraph(old, d) == as_nx_graph(d)

\* preprocess: return Data(data)
PreprocessReturn(d) == Data(d)

\* Variant: the list inside the solution is returned, not the solution.
PostprocessReturnList(d) == Data(d.data)

\* postprocess: return Data(data)
PostprocessReturn(d) == Data(d)

\* ------------------------------------------------- postprocess, piecewise
\* Variant: the solution list itself is taken as the included nodes.
IncludedNodesUnfiltered(G, d) == d.data

\* included_nodes = [node for node in self.g.nodes() if node in data.data]
IncludedNodes(G, d) == SelectSeq(G.nodes, LAMBDA n : In(n, d.data))

\* excluded_nodes = [node for node in self.g.nodes() if node not in data.data]
ExcludedNodes(G, d) == SelectSeq(G.nodes, LAMBDA n : ~In(n, d.data))

\* pos = nx.spring_layout(self.g): one position per node of the graph.  The
\* coordinates are the layout library's; the component only passes them on.
spring_layout(G) == [n \in Elems(G.nodes) |-> "xy"]

\* included_pos = {n: n for n, _ in pos.items() if n in data.data}
IncludedPos(p, d) == [n \in {m \in DOMAIN p : In(m, d.data)} |-> n]

\* excluded_pos = {n: n for n, _ in pos.items() if n not in data.data}
ExcludedPos(p, d) == [n \in {m \in DOMAIN p : ~In(m, d.data)} |-> n]

\* edge_list = [(data.data[i], data.data[i + 1])
\*              for i in range(len(data.data) - 1)]
ConsecutivePairs(s) ==
    [i \in 1..(IF Len(s) = 0 THEN 0 ELSE Len(s) - 1) |-> <<s[i], s[i + 1]>>]

\* Variant: the cycle is closed from two elements on.
ClosesCycleFromTwo(s) == Len(s) >= 2

\* if len(data.data) > 2
ClosesCycle(s) == Len(s) > 2

\* ... edge_list.append((data.data[-1], data.data[0]))
EdgeList(s) ==
    IF ClosesCycle(s)
    THEN Append(ConsecutivePairs(s), <<s[Len(s)], s[1]>>)
    ELSE ConsecutivePairs(s)

\* e in edge_list or (e[1], e[0]) in edge_list
MatchesPath(e, el) == In(e, el) \/ In(<<e[2], e[1]>>, el)

\* included_edges, path mode
IncludedEdgesPath(G, el) == SelectSeq(G.edges, LAMBDA e : MatchesPath(e, el))

\* Variant: one endpoint in the solution is enough.
MatchesSetEither(e, d) == In(e[1], d.data) \/ In(e[2], d.data)

\* e[0] in data.data and e[1] in data.data
MatchesSet(e, d) == In(e[1], d.data) /\ In(e[2], d.data)

\* included_edges, set mode
IncludedEdgesSet(G, d) == SelectSeq(G.edges, LAMBDA e : MatchesSet(e, d))

\* Variant: every edge of the graph is listed as excluded.
ExcludedEdgesAll(G, inc) == G.edges

\* excluded_edges = [e for e in self.g.edges() if e not in included_edges]
ExcludedEdges(G, inc) == SelectSeq(G.edges, LAMBDA e : ~In(e, inc))

\* if self.solution_type == "path"
IsPath(t) == t = "path"

\* Variant: whatever is not "path" is handled as "set".
IsSetOrOther(t) == t # "path"

\* elif self.solution_type == "set"
IsSet(t) == t = "set"

\* Variant: the solution is marked whether or not highlighting is on.
MarkSolutionAlways(highlight) == "red"

\* mark_solution_nodes / mark_solution_edges
MarkSolution(highlight) == IF highlight THEN "red" ELSE "black"

\* width=self.edge_width*0.8, in tenths
ExcludedWidth(w) == w * 8

\* width=self.edge_width, in tenths
IncludedWidth(w) == w * 10

\* Variant: the legend needs both flags.
WantsLegendBoth(hn, he) == hn /\ he

\* if self.highlight_nodes or self.highlight_edges
WantsLegend(hn, he) == hn \/ he

\* if self.save_path != ""
WantsSave(p) == p # ""

\* ------------------------------------------------------------- the state
VARIABLES
    \* the dataclass fields
    highlight_nodes, highlight_edges, node_size, node_shape, edge_width,
    edge_style, font_size, solution_type, save_path, show_plot,
    \* self.g, NoGraph while the attribute has not been set
    g,
    \* the most recent call: which method, its argument, the value it
    \* returned (NoReturn when it raised), the exception it raised (None
    \* when it returned), and the Graph most recently passed to preprocess
    op, arg, ret, err, lastGraph,
    \* the locals of the most recent postprocess call (<<>> when the call
    \* did not reach the assignment)
    included_nodes, excluded_nodes,
    edge_list, included_edges, excluded_edges,
    \* the plotting-library calls of the most recent call, in order
    calls

config == <<highlight_nodes, highlight_edges, node_size, node_shape,
            edge_width, edge_style, font_size, solution_type, save_path,
            show_plot>>

locals == <<included_nodes, excluded_nodes, edge_list, included_edges,
            excluded_edges>>

vars == <<config, g, op, arg, ret, err, lastGraph, locals, calls>>

\* The fields other than the output ones take the given values (the
\* styling fields their defaults).
Fields ==
    /\ highlight_nodes \in BOOLEAN
    /\ highlight_edges \in BOOLEAN
    /\ node_size = DefaultNodeSize
    /\ node_shape = "o"
    /\ edge_width = DefaultEdgeWidth
    /\ edge_style = "solid"
    /\ font_size = DefaultFontSize
    /\ solution_type \in SolutionTypes

\* No method has been called yet.
NothingCalled ==
    /\ op = "init" /\ arg = None /\ ret = NoReturn /\ err = None
    /\ lastGraph = None
    /\ included_nodes = <<>> /\ excluded_nodes = <<>>
    /\ edge_list = <<>> /\ included_edges = <<>> /\ excluded_edges = <<>>
    /\ calls = <<>>

\* Variant: the component starts out holding an empty graph.
ConstructWithEmptyGraph ==
    /\ Fields
    /\ g = [nodes |-> <<>>, edges |-> <<>>]
    /\ NothingCalled

\* GraphVisualizer(...): g is not among the fields, so it is not set.
Construct ==
    /\ Fields
    /\ g = NoGraph
    /\ NothingCalled

\* Constructed with the output fields at their defaults: no file, display.
Init ==
    /\ Construct
    /\ save_path = ""
    /\ show_plot = TRUE

\* Constructed with any output fields, solution_type at its default.
InitOutput ==
    /\ Construct
    /\ solution_type = "path"
    /\ save_path \in SavePaths
    /\ show_plot \in BOOLEAN

NoLocals ==
    /\ included_nodes' = <<>> /\ excluded_nodes' = <<>>
    /\ edge_list' = <<>> /\ included_edges' = <<>> /\ excluded_edges' = <<>>

\* def preprocess(self, data): self.g = data.as_nx_graph(); return Data(data)
Preprocess ==
    \E d \in GraphInputs :
        /\ g' = StoreGraph(g, d)
        /\ lastGraph' = d
        /\ op' = "preprocess" /\ arg' = d
        /\ ret' = PreprocessReturn(d) /\ err' = None
        /\ calls' = <<>>
        /\ NoLocals
        /\ UNCHANGED config

\* The two legend handles.
LegendElements(mn, me) ==
    << [label |-> "Included", marker |-> node_shape, ls |-> edge_style,
        color |-> me, markerfacecolor |-> mn,
        markeredgewidth |-> 0, markersize |-> MarkerSize],
       [label |-> "Excluded", marker |-> node_shape, ls |-> edge_style,
        color |-> "black", markerfacecolor |-> "black",
        markeredgewidth |-> 0, markersize |-> MarkerSize] >>

\* The six draw calls, then legend, savefig and show as configured.
PlotCalls(inc_n, exc_n, inc_p, exc_p, inc_e, exc_e) ==
    LET mark_solution_nodes == MarkSolution(highlight_nodes)
        mark_solution_edges == MarkSolution(highlight_edges)
        draws ==
          << [fn |-> "draw_networkx_nodes", nodelist |-> inc_n,
              node_size |-> node_size, node_color |-> mark_solution_nodes],
             [fn |-> "draw_networkx_nodes", nodelist |-> exc_n,
              node_size |-> node_size, node_color |-> "black"],
             [fn |-> "draw_networkx_labels", labels |-> inc_p,
              font_size |-> font_size, font_weight |-> "bold",
              font_color |-> "white"],
             [fn |-> "draw_networkx_labels", labels |-> exc_p,
              font_size |-> font_size, font_weight |-> "normal",
              font_color |-> "white"],
             [fn |-> "draw_networkx_edges", edgelist |-> exc_e,
              width |-> ExcludedWidth(edge_width), edge_color |-> "black"],
             [fn |-> "draw_networkx_edges", edgelist |-> inc_e,
              width |-> IncludedWidth(edge_width),
              edge_color |-> mark_solution_edges] >>
        legend ==
          IF WantsLegend(highlight_nodes, highlight_edges)
          THEN << [fn |-> "legend", loc |-> "best",
                   handles |-> LegendElements(mark_solution_nodes,
                                              mark_solution_edges)] >>
          ELSE <<>>
        save ==
          IF WantsSave(save_path)
          THEN << [fn |-> "savefig", fname |-> save_path] >>
          ELSE <<>>
        show == IF show_plot THEN << [fn |-> "show"] >> ELSE <<>>
    IN  draws \o legend \o save \o show

\* def postprocess(self, data)
Postprocess ==
    \E d \in SolutionInputs :
        /\ op' = "postprocess" /\ arg' = d
        /\ UNCHANGED <<config, g, lastGraph>>
        /\ IF g = NoGraph
           THEN \* self.g: the attribute was never set
                /\ err' = [type |-> "AttributeError", value |-> "g"]
                /\ ret' = NoReturn
                /\ calls' = <<>>
                /\ NoLocals
           ELSE LET inc_n == IncludedNodes(g, d)
                    exc_n == ExcludedNodes(g, d)
                    p == spring_layout(g)
                    inc_p == IncludedPos(p, d)
                    exc_p == ExcludedPos(p, d)
                IN  /\ included_nodes' = inc_n
                    /\ excluded_nodes' = exc_n
                    /\ IF IsPath(solution_type) \/ IsSet(solution_type)
                       THEN LET el == IF IsPath(solution_type)
                                      THEN EdgeList(d.data) ELSE <<>>
                                inc_e == IF IsPath(solution_type)
                                         THEN IncludedEdgesPath(g, el)
                                         ELSE IncludedEdgesSet(g, d)
                                exc_e == ExcludedEdges(g, included_edges')
                            IN  /\ edge_list' = el
                                /\ included_edges' = inc_e
                                /\ excluded_edges' = exc_e
                                /\ calls' = PlotCalls(included_nodes',
                                                      excluded_nodes',
                                                      inc_p, exc_p,
                                                      included_edges',
                                                      excluded_edges')
                                /\ ret' = PostprocessReturn(d)
                                /\ err' = None
                       ELSE \* raise ValueError(... {self.solution_type})
                            /\ edge_list' = <<>>
                            /\ included_edges' = <<>>
                            /\ excluded_edges' = <<>>
                            /\ calls' = <<>>
                            /\ ret' = NoReturn
                            /\ err' = [type |-> "ValueError",
                                       value |-> solution_type]

Next == Preprocess \/ Postprocess

Spec == Init /\ [][Next]_vars

SpecOutput == InitOutput /\ [][Next]_vars

\* ------------------------------------------------------------ properties
\* The most recent call was a postprocess that ran to its return.
Rendered == op = "postprocess" /\ err = None

Solution == arg.data

\* C2: after every completed render, in path mode and in set mode,
\* included_nodes and excluded_nodes are disjoint and together are exactly
\* the nodes of the stored graph, included_edges and excluded_edges are
\* disjoint and together are exactly its edges, and no node or edge is
\* listed twice.
C2_PartitionsAreCompleteAndDisjoint ==
    Rendered =>
        /\ Elems(included_nodes) \cap Elems(excluded_nodes) = {}
        /\ Elems(included_nodes) \cup Elems(excluded_nodes) = Elems(g.nodes)
        /\ NoDup(included_nodes \o excluded_nodes)
        /\ Elems(included_edges) \cap Elems(excluded_edges) = {}
        /\ Elems(included_edges) \cup Elems(excluded_edges) = Elems(g.edges)
        /\ NoDup(included_edges \o excluded_edges)

\* A set-mode render in which all four lists are non-empty.
C2_Witness ==
    /\ Rendered
    /\ solution_type = "set"
    /\ included_nodes # <<>> /\ excluded_nodes # <<>>
    /\ included_edges # <<>> /\ excluded_edges # <<>>

\* C3: after every completed path-mode render of a solution s, edge_list
\* is the Len(s)-1 consecutive pairs (s[i], s[i+1]) followed, only when
\* Len(s) > 2, by the closing pair (s[last], s[first]) -- Len(s) pairs when
\* Len(s) > 2, one or none otherwise -- and an edge (u, v) of the graph is
\* in included_edges exactly when (u, v) or (v, u) is one of these pairs,
\* and in excluded_edges otherwise.
C3_PathImpliedEdges ==
    (Rendered /\ solution_type = "path") =>
        LET s == Solution
            n == Len(s)
            implied == {<<s[i], s[i + 1]>> : i \in 1..(n - 1)}
                       \cup (IF n > 2 THEN {<<s[n], s[1]>>} ELSE {})
        IN  /\ Len(edge_list) = (IF n > 2 THEN n ELSE IF n = 2 THEN 1 ELSE 0)
            /\ \A i \in 1..(n - 1) : edge_list[i] = <<s[i], s[i + 1]>>
            /\ n > 2 => edge_list[n] = <<s[n], s[1]>>
            /\ \A e \in Elems(g.edges) :
                 /\ In(e, included_edges)
                      <=> (e \in implied \/ <<e[2], e[1]>> \in implied)
                 /\ In(e, excluded_edges) <=> ~In(e, included_edges)
            /\ (g = CycleGraph /\ s = CyclePath) =>
                 (included_edges = g.edges /\ excluded_edges = <<>>)
            /\ s = <<"A", "B">> => edge_list = << <<"A", "B">> >>

\* A path-mode render of three nodes whose closing pair is an included
\* edge, with another edge included through its reversed pair only.
C3_Witness ==
    /\ Rendered
    /\ solution_type = "path"
    /\ Len(Solution) = 3
    /\ In(edge_list[3], included_edges)
    /\ \E e \in Elems(included_edges) : ~In(e, edge_list)

\* C4: after every completed set-mode render of a solution S, an edge of
\* the graph is in included_edges exactly when both of its endpoints are
\* in S, and in excluded_edges otherwise; two nodes of S that no edge joins
\* contribute no included edge.
C4_SetModeEdges ==
    (Rendered /\ solution_type = "set") =>
        LET S == Elems(Solution)
        IN  /\ \A e \in Elems(g.edges) :
                 /\ In(e, included_edges) <=> (e[1] \in S /\ e[2] \in S)
                 /\ In(e, excluded_edges) <=> ~(e[1] \in S /\ e[2] \in S)
            /\ \A u, v \in S :
                 (<<u, v>> \notin Elems(g.edges)
                    /\ <<v, u>> \notin Elems(g.edges))
                 => (~In(<<u, v>>, included_edges)
                       /\ ~In(<<v, u>>, included_edges))
            /\ (g = CycleGraph /\ S = {"A", "C"}) =>
                 (included_edges = <<>> /\ excluded_edges = g.edges)

\* The cycle A-B-C-D-A rendered in set mode with S = {A, C}: nothing is
\* included and all four edges are excluded.
C4_Witness ==
    /\ Rendered
    /\ solution_type = "set"
    /\ g = CycleGraph
    /\ Elems(Solution) = {"A", "C"}
    /\ included_edges = <<>>
    /\ Len(excluded_edges) = 4

\* C10: a render on a stored graph in path or set mode raises nothing,
\* whatever nodes the solution names; included_nodes holds only nodes of
\* the graph, both endpoints of every included edge are in included_nodes,
\* and an edge included in path mode is one set mode would include for the
\* same graph and solution.
C10_UnknownNodesAreDropped ==
    (op = "postprocess" /\ g # NoGraph /\ solution_type \in {"path", "set"}) =>
        /\ err = None
        /\ Elems(included_nodes) \subseteq Elems(g.nodes)
        /\ \A e \in Elems(included_edges) :
             e[1] \in Elems(included_nodes) /\ e[2] \in Elems(included_nodes)
        /\ solution_type = "path" =>
             Elems(included_edges) \subseteq Elems(IncludedEdgesSet(g, arg))

\* A path-mode render whose solution names a node the graph does not have
\* and still includes an edge.
C10_Witness ==
    /\ Rendered
    /\ solution_type = "path"
    /\ \E i \in DOMAIN Solution : Solution[i] \notin Elems(g.nodes)
    /\ included_edges # <<>>

\* C1 as stated: with solution_type neither "path" nor "set", every
\* postprocess call raises the error that carries solution_type, makes no
\* plotting call and returns nothing.
C1_EveryRenderRaisesValueError ==
    (op = "postprocess" /\ solution_type \notin {"path", "set"}) =>
        /\ err = [type |-> "ValueError", value |-> solution_type]
        /\ calls = <<>>
        /\ ret = NoReturn

\* C1, amended: with solution_type neither "path" nor "set" the component
\* is constructed, and every postprocess call raises, makes no plotting
\* call and returns nothing; the error carries solution_type when a graph
\* has been stored, and is the missing-attribute error when none has.
C1_InvalidModeFailsWithoutDrawing ==
    /\ (op = "init" /\ solution_type \notin {"path", "set"}) => err = None
    /\ (op = "postprocess" /\ solution_type \notin {"path", "set"}) =>
        /\ err # None
        /\ calls = <<>>
        /\ ret = NoReturn
        /\ g # NoGraph =>
             err = [type |-> "ValueError", value |-> solution_type]
        /\ g = NoGraph =>
             err = [type |-> "AttributeError", value |-> "g"]

\* A render of a non-empty solution on a stored graph with edges, under an
\* unknown solution_type, that raised the ValueError.
C1_Witness ==
    /\ op = "postprocess"
    /\ solution_type = "tree"
    /\ g # NoGraph
    /\ g.edges # <<>>
    /\ Solution # <<>>
    /\ err = [type |-> "ValueError", value |-> "tree"]

\* C9: a postprocess call made before any preprocess call raises, makes no
\* plotting call and returns nothing.
C9_RenderBeforeIngestFails ==
    (op = "postprocess" /\ lastGraph = None) =>
        /\ err # None
        /\ calls = <<>>
        /\ ret = NoReturn

\* A path-mode render with no graph stored, which raised on self.g.
C9_Witness ==
    /\ op = "postprocess"
    /\ lastGraph = None
    /\ solution_type = "path"
    /\ Solution # <<>>
    /\ err = [type |-> "AttributeError", value |-> "g"]

\* The nodes and edges handed to the draw calls of a completed render.
DrawnNodes(c) == Elems(c[1].nodelist) \cup Elems(c[2].nodelist)

DrawnEdges(c) == Elems(c[5].edgelist) \cup Elems(c[6].edgelist)

\* C5: preprocess stores the graph it is given, replacing any stored one;
\* postprocess leaves the stored graph as it is, whether it returns or
\* raises, and a completed postprocess draws exactly the nodes and edges
\* of the graph given to the most recent preprocess; after a render on a
\* stored graph a graph is still stored.
C5_RenderUsesLatestGraph ==
    [][ /\ op' = "preprocess" => g' = as_nx_graph(arg')
        /\ op' = "postprocess" =>
             /\ g' = g
             /\ g # NoGraph => (g' # NoGraph /\ g' = as_nx_graph(lastGraph))
             /\ err' = None =>
                  /\ DrawnNodes(calls') = Elems(as_nx_graph(lastGraph).nodes)
                  /\ DrawnEdges(calls') = Elems(as_nx_graph(lastGraph).edges)
      ]_vars

\* A completed render, right after which the stored graph is the three-node
\* graph given last and all of it was drawn.
C5_Witness ==
    /\ Rendered
    /\ lastGraph # None
    /\ g = as_nx_graph(lastGraph)
    /\ g.nodes = NodeOrder
    /\ g.edges # <<>>
    /\ DrawnNodes(calls) = NodeIds
    /\ DrawnEdges(calls) = Elems(g.edges)

\* C6: preprocess returns the Graph value it was given and a postprocess
\* that returns, returns the Solution value it was given, elements and
\* order as given; neither changes a configuration field.
C6_Passthrough ==
    [][ /\ op' = "preprocess" => (ret' = Data(arg') /\ ret'.data = lastGraph')
        /\ (op' = "postprocess" /\ err' = None) =>
             (ret'.tag = "Data" /\ ret'.data = arg')
        /\ UNCHANGED config
      ]_vars

\* A completed render of a three-element solution with a repeated node,
\* returned as given.
C6_Witness ==
    /\ Rendered
    /\ Len(Solution) = 3
    /\ ~NoDup(Solution)
    /\ ret = [tag |-> "Data", data |-> arg]

\* C7 as stated: with both highlight flags off, a completed render draws
\* included and excluded nodes, labels and edges with the same colour,
\* width and font weight.
C7_DrawnIdentically ==
    (Rendered /\ ~highlight_nodes /\ ~highlight_edges) =>
        /\ calls[1].node_color = calls[2].node_color
        /\ calls[1].node_size = calls[2].node_size
        /\ calls[3].font_color = calls[4].font_color
        /\ calls[3].font_size = calls[4].font_size
        /\ calls[3].font_weight = calls[4].font_weight
        /\ calls[6].edge_color = calls[5].edge_color
        /\ calls[6].width = calls[5].width

\* C7, amended: with both highlight flags off, a completed render draws
\* included and excluded nodes, labels and edges in the same colour and
\* size (black nodes and edges, white labels); the included labels are
\* still bold where the excluded ones are not, and the excluded edges are
\* still drawn at 0.8 of the width of the included ones.
C7_SameColourOnly ==
    (Rendered /\ ~highlight_nodes /\ ~highlight_edges) =>
        /\ calls[1].node_color = "black" /\ calls[2].node_color = "black"
        /\ calls[1].node_size = calls[2].node_size
        /\ calls[3].font_color = "white" /\ calls[4].font_color = "white"
        /\ calls[3].font_size = calls[4].font_size
        /\ calls[6].edge_color = "black" /\ calls[5].edge_color = "black"
        /\ calls[3].font_weight = "bold" /\ calls[4].font_weight = "normal"
        /\ calls[6].width = IncludedWidth(edge_width)
        /\ calls[5].width * 10 = calls[6].width * 8

\* A completed render with both flags off in which included and excluded
\* nodes and edges were all drawn.
C7_Witness ==
    /\ Rendered
    /\ ~highlight_nodes /\ ~highlight_edges
    /\ calls[1].nodelist # <<>> /\ calls[2].nodelist # <<>>
    /\ calls[5].edgelist # <<>> /\ calls[6].edgelist # <<>>

DrawFns ==
    {"draw_networkx_nodes", "draw_networkx_labels", "draw_networkx_edges"}

\* C8: a completed render makes the legend call exactly when highlight_nodes
\* or highlight_edges is set, at most once, with the two handles "Included"
\* and "Excluded", after the six node, label and edge draw calls and before
\* any savefig or show call.
C8_LegendIffHighlight ==
    Rendered =>
        LET L == {i \in DOMAIN calls : calls[i].fn = "legend"}
        IN  /\ (L # {}) <=> (highlight_nodes \/ highlight_edges)
            /\ Cardinality(L) <= 1
            /\ Cardinality({j \in DOMAIN calls : calls[j].fn \in DrawFns}) = 6
            /\ \A i \in L :
                 /\ Len(calls[i].handles) = 2
                 /\ calls[i].handles[1].label = "Included"
                 /\ calls[i].handles[2].label = "Excluded"
                 /\ \A j \in DOMAIN calls :
                      /\ calls[j].fn \in DrawFns => j < i
                      /\ calls[j].fn \in {"savefig", "show"} => i < j

\* A completed render with one flag set, a file path and display on: the
\* legend is the seventh call, between the draws and savefig, show.
C8_Witness ==
    /\ Rendered
    /\ highlight_nodes /\ ~highlight_edges
    /\ Len(calls) = 9
    /\ calls[7].fn = "legend"
    /\ calls[8].fn = "savefig"
    /\ calls[9].fn = "show"

====
